---- MODULE Spec2Model ----
(***************************************************************************)
(* simple_sqs_client: the SQSClient instance registry (client.py __new__  *)
(* and _get_existing_instance), the builder's validation (builder.py      *)
(* build), and the client operations send_message, read_events_with_retry,*)
(* delete_event_from_queue and purge, as a state machine.                  *)
(*                                                                         *)
(* Every call runs in a frame th[t] of its caller t.  A call is a series   *)
(* of steps; the boto3 transport is the environment: a transport call is   *)
(* begun by one step (which reads self.sqs) and ended by another, whose    *)
(* outcome is drawn from the outcomes the transport can produce.           *)
(* mode = "seq" schedules one call at a time (a single-threaded program);  *)
(* mode = "conc" lets the callers' steps interleave freely (threads        *)
(* sharing the class-level list and the client objects, with no lock, as   *)
(* in the source).                                                         *)
(***************************************************************************)
EXTENDS Integers, Sequences, FiniteSets, TLC

VARIABLES
    instances,  \* SQSClient._instances: the objects appended by __new__, in order
    opened,     \* number of boto3 clients created so far; handle h is the h-th one
    ref,        \* ref[t]: the client object caller t holds (index in instances, 0: none)
    th,         \* th[t]: the frame of caller t's current call
    returned,   \* history: {cfg, inst} of every construction that returned an instance
    mode,       \* the scenario: who is scheduled and what the inputs are
    closed,     \* the handles close() was called on, each with the caller that did
    scope,      \* scope[t]: the `with` block caller t is in, and the handles opened in it
    queue,      \* the messages the queue service holds, each with its queue's URL
    hist        \* history: what earlier calls did (see Hist0)

vars == <<instances, opened, ref, th, returned, mode, closed, scope, queue, hist>>

----------------------------------------------------------------------------
(* Bounds *)

MaxInstances == 2   \* constructions start only while the registry is shorter
MaxHandles == 4     \* boto3 clients created in one behaviour
MaxAttempts == 3    \* largest max_retry_attempts passed to read_events_with_retry
MaxQueue == 2       \* messages the queue service holds at a time

Callers == {"c1", "c2"}

----------------------------------------------------------------------------
(* Values *)

NoneV == "<None>"     \* Python None
Unset == "<unset>"    \* an attribute that has not been assigned yet

Fields == <<"region_name", "aws_access_key_id", "aws_secret_access_key", "queue_url">>
FieldSet == {Fields[i] : i \in 1..Len(Fields)}

Base == [region_name |-> "eu", aws_access_key_id |-> "AK",
         aws_secret_access_key |-> "SK", queue_url |-> "q1"]
Alt == [region_name |-> "us", aws_access_key_id |-> "AK2",
        aws_secret_access_key |-> "SK2", queue_url |-> "q2"]

MkCfg(r, k, s, q) ==
    [region_name |-> r, aws_access_key_id |-> k,
     aws_secret_access_key |-> s, queue_url |-> q]

\* The inputs of each scenario.  "seq": a single-threaded program exercising
\* the registry and the operations; "build": a single-threaded program
\* exercising the builder's validation; "conc": threads; "scope": a
\* single-threaded program whose parts share clients and use them in `with`
\* blocks; "queue": a single-threaded program and the messages of its queues.

\* Arguments of a direct SQSClient(...) call: Base; Base with one field
\* replaced by another value; Base with a field None or empty.
DirectConfigs(m) ==
    IF m = "seq"
    THEN {Base} \cup {[Base EXCEPT ![f] = Alt[f]] : f \in FieldSet}
         \cup {[Base EXCEPT !.region_name = NoneV], [Base EXCEPT !.queue_url = ""]}
    ELSE IF m = "build"
    THEN {Base, [Base EXCEPT !.queue_url = ""]}
    ELSE {Base, [Base EXCEPT !.queue_url = Alt.queue_url]}

\* Fields of a builder when build() is called: each one never set (None, from
\* SQSClientBuilder.__init__), set to the empty string, or set to a value.
BuilderInputs(m) ==
    IF m = "build"
    THEN {MkCfg(r, k, s, q) : r \in {NoneV, "", Base.region_name},
                             k \in {NoneV, "", Base.aws_access_key_id},
                             s \in {NoneV, "", Base.aws_secret_access_key},
                             q \in {NoneV, "", Base.queue_url, Alt.queue_url}}
    ELSE {Base, [Base EXCEPT !.queue_url = ""]}

\* max_retry_attempts of a read_events_with_retry call.
AttemptArgs(m) == IF m = "seq" THEN -1..MaxAttempts ELSE {1}

Batches == {<<>>, <<"m1">>}

\* "queue": a single-threaded program using a queue service that keeps what
\* it is sent.  The bodies and message attributes of its send calls, and
\* max_batch of its receive calls (10 is the default of line 118).
Bodies(m) == IF m = "queue" THEN {"b1", "b2"} ELSE {"b1"}
Attributes == {"LPViewEvent,web_layer"}
BatchArgs(m) == IF m = "queue" THEN {1, 10} ELSE {10}

\* A message as receive_message returns it.  send_message of boto3 called
\* without MessageAttributes stores a message that has none.
Message(url, body, attrs) == [url |-> url, Body |-> body, MessageAttributes |-> attrs]

\* Exceptions of botocore.exceptions the transport raises.  WaiterError is the
\* class read_events_with_retry catches; the others are not caught there.
HardErrors == {"ClientError", "HTTPClientError"}
TransportErrors == HardErrors \cup {"WaiterError"}

NoCfg == MkCfg(Unset, Unset, Unset, Unset)

NoRes == [kind |-> "pending", val |-> "", msgs |-> <<>>, missing |-> <<>>]
Returns(v) == [kind |-> "return", val |-> v, msgs |-> <<>>, missing |-> <<>>]
ReturnsList(ms) == [kind |-> "return", val |-> "messages", msgs |-> ms, missing |-> <<>>]
Raises(e) == [kind |-> "raise", val |-> e, msgs |-> <<>>, missing |-> <<>>]
RaisesMissing(e, miss) == [kind |-> "raise", val |-> e, msgs |-> <<>>, missing |-> miss]

\* The frame of a call.  op, cfg, self, n, attempt: the call and its locals.
\* found, h0: whether __new__ found an object; self.sqs when the call began.
\* outs: the outcomes of the transport calls issued so far; polled: the list
\* the last receive_message returned; used, mark: the handle the last
\* transport call was issued on, and `opened` at that moment; url: the
\* QueueUrl argument of that call; body, attrs, batch: the arguments of a
\* send and max_batch of a receive; inits: the calls of _init_client in
\* this call; res: the call's result.
Frame0 ==
    [pc |-> "idle", op |-> "none", cfg |-> NoCfg, self |-> 0, found |-> FALSE,
     h0 |-> 0, n |-> 0, attempt |-> 0, outs |-> <<>>, polled |-> <<>>,
     used |-> 0, mark |-> 0, url |-> Unset, body |-> "", attrs |-> NoneV,
     batch |-> 0, inits |-> 0, res |-> NoRes]

\* Caller t is in no `with` block; in one, inst is the client and opens the
\* handles _init_client created on it since __enter__ began.
NoScope == [inst |-> 0, opens |-> {}]

\* The scopes after _init_client created handle h on object i.
OpenedIn(sc, i, h) ==
    [u \in Callers |-> IF sc[u].inst = i THEN [sc[u] EXCEPT !.opens = @ \cup {h}] ELSE sc[u]]

\* History.  failures: the polls of read_events_with_retry that ended with
\* WaiterError so far (recorded in the "seq" scenario).  In "queue": purged,
\* the queues a purge() call returned for and no message was sent to since;
\* lastSend, the last send call, whether its queue held no message then, as
\* long as no later call changed or read that queue.
NoSend == [url |-> Unset, body |-> "", attrs |-> NoneV, onEmpty |-> FALSE]
Hist0 == [failures |-> 0, purged |-> {}, lastSend |-> NoSend]

\* super().__new__(cls): an object with no attributes.
NewInstance ==
    [region_name |-> Unset, aws_access_key_id |-> Unset,
     aws_secret_access_key |-> Unset, queue_url |-> Unset, sqs |-> 0]

ConfigOf(inst) ==
    MkCfg(inst.region_name, inst.aws_access_key_id, inst.aws_secret_access_key, inst.queue_url)

----------------------------------------------------------------------------
(* Scheduling *)

\* Caller t may take a step: every thread may when threads interleave; a
\* single-threaded program has the main thread only; in "scope" the callers
\* are parts of one single-threaded program, each with its own reference,
\* and one call runs at a time.
MainThread == "c1"
Sched(t) ==
    IF mode = "conc" THEN TRUE
    ELSE IF mode = "scope" THEN \A u \in Callers \ {t} : th[u].pc = "idle"
    ELSE t = MainThread

TypeOK ==
    /\ mode \in {"seq", "build", "conc", "scope", "queue"}
    /\ opened \in 0..MaxHandles
    /\ ref \in [Callers -> 0..Len(instances)]
    /\ \A c \in closed : c.h \in 1..opened /\ c.by \in Callers
    /\ \A t \in Callers : scope[t].inst \in 0..Len(instances)
                          /\ scope[t].opens \subseteq 1..opened
    /\ Len(queue) <= MaxQueue
    /\ hist.failures \in 0..(MaxHandles + 1)
    /\ \A t \in Callers : th[t].pc \in
          {"idle", "new", "register", "init", "connect", "loop", "polling",
           "except", "sending", "deleting", "purging", "done"}

----------------------------------------------------------------------------
(* builder.py *)

\* `not x` for x a str or None.
Falsy(v) == v = NoneV \/ v = ""

\* A validation that stops at the first missing field.
MissingFieldsFirstOnly(b) ==
    LET all == SelectSeq(Fields, LAMBDA f : Falsy(b[f]))
    IN IF all = <<>> THEN <<>> ELSE <<all[1]>>

\* build(), lines 63-72: the names of the falsy fields, in the order tested.
MissingFields(b) == SelectSeq(Fields, LAMBDA f : Falsy(b[f]))

----------------------------------------------------------------------------
(* client.py: the registry *)

\* The comparison with the queue_url conjunct left out.
MatchesIgnoringQueue(inst, cfg) ==
    /\ inst.region_name = cfg.region_name
    /\ inst.aws_access_key_id = cfg.aws_access_key_id
    /\ inst.aws_secret_access_key = cfg.aws_secret_access_key

\* The condition of lines 73-76.
Matches(inst, cfg) ==
    /\ inst.region_name = cfg.region_name
    /\ inst.aws_access_key_id = cfg.aws_access_key_id
    /\ inst.aws_secret_access_key = cfg.aws_secret_access_key
    /\ inst.queue_url = cfg.queue_url

\* The loop of lines 72-78, from position i on.  Reading region_name of an
\* object whose __init__ has not assigned it raises AttributeError.
RECURSIVE Scan(_, _, _)
Scan(insts, cfg, i) ==
    IF i > Len(insts) THEN [kind |-> "none", idx |-> 0]
    ELSE IF insts[i].region_name = Unset THEN [kind |-> "AttributeError", idx |-> i]
    ELSE IF Matches(insts[i], cfg) THEN [kind |-> "found", idx |-> i]
    ELSE Scan(insts, cfg, i + 1)

get_existing_instance(insts, cfg) == Scan(insts, cfg, 1)

\* boto3.client('sqs', region_name=..., ...) does no I/O: whether it raises is
\* a function of its arguments.  Without a region it raises (NoRegionError).
OpenFails(inst) == Falsy(inst.region_name)

\* A reconnection that loses queue_url.
init_client_forgets_queue(insts, i, h) == [insts EXCEPT ![i].sqs = h, ![i].queue_url = Unset]

\* _init_client, lines 92-94: self.sqs = the boto3 client created now.
init_client(insts, i, h) == [insts EXCEPT ![i].sqs = h]

\* __init__, lines 44-47.
AssignFields(insts, i, cfg) ==
    [insts EXCEPT ![i] = [region_name |-> cfg.region_name,
                          aws_access_key_id |-> cfg.aws_access_key_id,
                          aws_secret_access_key |-> cfg.aws_secret_access_key,
                          queue_url |-> cfg.queue_url,
                          sqs |-> @.sqs]]

Finish(t, r) == [th EXCEPT ![t].pc = "done", ![t].res = r]

\* A construction starts only while the registry has room or holds the config.
Room(cfg) ==
    \/ Len(instances) < MaxInstances
    \/ \E i \in 1..Len(instances) : ConfigOf(instances[i]) = cfg

\* SQSClientBuilder.build(): validation, then SQSClient(...).
CallBuild(t) ==
    /\ Sched(t) /\ th[t].pc = "idle"
    /\ \E b \in BuilderInputs(mode) :
          /\ MissingFields(b) # <<>> \/ Room(b)
          /\ LET miss == MissingFields(b)
                 f == [Frame0 EXCEPT !.op = "build", !.cfg = b]
             IN th' = [th EXCEPT ![t] =
                    IF miss # <<>>
                    THEN [f EXCEPT !.pc = "done", !.res = RaisesMissing("ValueError", miss)]
                    ELSE [f EXCEPT !.pc = "new"]]
    /\ UNCHANGED <<instances, opened, ref, returned, mode, closed, scope, queue, hist>>

\* SQSClient(region_name, aws_access_key_id, aws_secret_access_key, queue_url).
CallConstruct(t) ==
    /\ Sched(t) /\ th[t].pc = "idle"
    /\ \E c \in DirectConfigs(mode) :
          /\ Room(c)
          /\ th' = [th EXCEPT ![t] = [Frame0 EXCEPT !.op = "construct", !.cfg = c, !.pc = "new"]]
    /\ UNCHANGED <<instances, opened, ref, returned, mode, closed, scope, queue, hist>>

\* __new__, lines 25-28: the lookup.
Lookup(t) ==
    /\ Sched(t) /\ th[t].pc = "new"
    /\ LET r == get_existing_instance(instances, th[t].cfg)
       IN th' = IF r.kind = "AttributeError" THEN Finish(t, Raises("AttributeError"))
                ELSE IF r.kind = "found"
                THEN [th EXCEPT ![t].pc = "init", ![t].self = r.idx, ![t].found = TRUE,
                                ![t].h0 = instances[r.idx].sqs]
                ELSE [th EXCEPT ![t].pc = "register"]
    /\ UNCHANGED <<instances, opened, ref, returned, mode, closed, scope, queue, hist>>

\* __new__, lines 29-31: a new object, appended to _instances.
Register(t) ==
    /\ Sched(t) /\ th[t].pc = "register"
    /\ instances' = Append(instances, NewInstance)
    /\ th' = [th EXCEPT ![t].pc = "init", ![t].self = Len(instances) + 1]
    /\ UNCHANGED <<opened, ref, returned, mode, closed, scope, queue, hist>>

\* __init__ runs on whatever __new__ returned: lines 44-49.
InitFields(t) ==
    /\ Sched(t) /\ th[t].pc = "init"
    /\ instances' = AssignFields(instances, th[t].self, th[t].cfg)
    /\ th' = [th EXCEPT ![t].pc = "connect"]
    /\ UNCHANGED <<opened, ref, returned, mode, closed, scope, queue, hist>>

\* __init__, line 51: self._init_client(); then the caller has its client.
Connect(t) ==
    /\ Sched(t) /\ th[t].pc = "connect"
    /\ LET i == th[t].self IN
       IF OpenFails(instances[i])
       THEN /\ th' = Finish(t, Raises("NoRegionError"))
            /\ UNCHANGED <<instances, opened, ref, returned, scope>>
       ELSE /\ opened < MaxHandles
            /\ opened' = opened + 1
            /\ instances' = init_client(instances, i, opened + 1)
            /\ th' = [Finish(t, Returns("instance")) EXCEPT ![t].inits = 1]
            /\ ref' = [ref EXCEPT ![t] = i]
            /\ returned' = returned \cup {[cfg |-> th[t].cfg, inst |-> i]}
            /\ scope' = OpenedIn(scope, i, opened + 1)
    /\ UNCHANGED <<mode, closed, queue, hist>>

\* The call's result is handed to the caller and the frame is gone.
Return(t) ==
    /\ Sched(t) /\ th[t].pc = "done"
    /\ th' = [th EXCEPT ![t] = Frame0]
    /\ hist' = IF th[t].op = "receive" THEN [hist EXCEPT !.lastSend = NoSend] ELSE hist
    /\ UNCHANGED <<instances, opened, ref, returned, mode, closed, scope, queue>>

----------------------------------------------------------------------------
(* client.py: the operations of a client *)

BeginCall(t, name, pc) ==
    [Frame0 EXCEPT !.op = name, !.pc = pc, !.self = ref[t],
                   !.h0 = instances[ref[t]].sqs]

\* The transport call is issued on the handle self.sqs holds now, with
\* QueueUrl=self.queue_url.
Issue(f, pc) ==
    [f EXCEPT !.pc = pc, !.used = instances[f.self].sqs, !.mark = opened,
              !.url = instances[f.self].queue_url]

----------------------------------------------------------------------------
(* The queue service of the "queue" scenario *)

\* The messages of the queue at url, oldest first.
QueueOf(q, url) == SelectSeq(q, LAMBDA m : m.url = url)

\* PurgeQueue: the messages of the queue at url are gone.
Purged(q, url) == SelectSeq(q, LAMBDA m : m.url # url)

\* DeleteMessage with the receipt handle of the oldest message of url.
RECURSIVE DeleteFirst(_, _)
DeleteFirst(q, url) ==
    IF q = <<>> THEN <<>>
    ELSE IF Head(q).url = url THEN Tail(q)
    ELSE <<Head(q)>> \o DeleteFirst(Tail(q), url)

\* ReceiveMessage with MaxNumberOfMessages=k: at most k messages.
Take(q, k) == IF Len(q) <= k THEN q ELSE SubSeq(q, 1, k)

\* lastSend after a call changed the queue at url.
Touched(h, url) == IF h.lastSend.url = url THEN [h EXCEPT !.lastSend = NoSend] ELSE h

----------------------------------------------------------------------------
(* client.py: the operations of a client, continued *)

\* send_message(body), lines 107-111: self.sqs.send_message(...) is called.
CallSend(t) ==
    /\ Sched(t) /\ th[t].pc = "idle" /\ ref[t] # 0
    /\ \E b \in Bodies(mode) :
          th' = [th EXCEPT ![t] =
                   Issue([BeginCall(t, "send", "sending") EXCEPT !.body = b], "sending")]
    /\ UNCHANGED <<instances, opened, ref, returned, mode, closed, scope, queue, hist>>

\* send_message(body, event_type, component), the call of test_client.py
\* line 41: the method of line 96 takes `body` only, so the call raises
\* TypeError before its first statement and nothing is sent.
CallSendWithAttributes(t) ==
    /\ Sched(t) /\ th[t].pc = "idle" /\ ref[t] # 0
    /\ \E b \in Bodies(mode) : \E a \in Attributes :
          LET url == instances[ref[t]].queue_url IN
          /\ th' = [th EXCEPT ![t] =
                      [BeginCall(t, "send_with_attributes", "done") EXCEPT
                          !.body = b, !.attrs = a, !.res = Raises("TypeError")]]
          /\ hist' = [hist EXCEPT !.lastSend =
                        [url |-> url, body |-> b, attrs |-> a,
                         onEmpty |-> QueueOf(queue, url) = <<>>]]
    /\ UNCHANGED <<instances, opened, ref, returned, mode, closed, scope, queue>>

\* A handler that raises an error of its own instead of re-raising.
SendResultWrapped(o) == IF o = "ok" THEN Returns("response") ELSE Raises("SendError")

\* send_message, lines 112-116: the response is returned; an exception is
\* logged and re-raised by the bare `raise`.
SendResult(o) == IF o = "ok" THEN Returns("response") ELSE Raises(o)

SendOutcome(t) ==
    /\ Sched(t) /\ th[t].pc = "sending"
    /\ \E o \in {"ok"} \cup TransportErrors :
          /\ th' = [Finish(t, SendResult(o)) EXCEPT ![t].outs = Append(@, o)]
          /\ IF mode = "queue" /\ o = "ok"
             THEN LET f == th[t] IN
                  /\ Len(queue) < MaxQueue
                  /\ queue' = Append(queue, Message(f.url, f.body, NoneV))
                  /\ hist' = [hist EXCEPT
                                !.purged = @ \ {f.url},
                                !.lastSend = [url |-> f.url, body |-> f.body, attrs |-> NoneV,
                                              onEmpty |-> QueueOf(queue, f.url) = <<>>]]
             ELSE UNCHANGED <<queue, hist>>
    /\ UNCHANGED <<instances, opened, ref, returned, mode, closed, scope>>

\* delete_event_from_queue, lines 172-175: self.sqs.delete_message(...).
CallDelete(t) ==
    /\ Sched(t) /\ th[t].pc = "idle" /\ ref[t] # 0
    /\ th' = [th EXCEPT ![t] = Issue(BeginCall(t, "delete", "deleting"), "deleting")]
    /\ UNCHANGED <<instances, opened, ref, returned, mode, closed, scope, queue, hist>>

\* No handler: an exception of the transport leaves the method as it is.
DeleteResult(o) == IF o = "ok" THEN Returns("None") ELSE Raises(o)

DeleteOutcome(t) ==
    /\ Sched(t) /\ th[t].pc = "deleting"
    /\ \E o \in {"ok"} \cup TransportErrors :
          /\ th' = [Finish(t, DeleteResult(o)) EXCEPT ![t].outs = Append(@, o)]
          /\ IF mode = "queue" /\ o = "ok"
             THEN /\ queue' = DeleteFirst(queue, th[t].url)
                  /\ hist' = Touched(hist, th[t].url)
             ELSE UNCHANGED <<queue, hist>>
    /\ UNCHANGED <<instances, opened, ref, returned, mode, closed, scope>>

\* purge, lines 185-186: self.sqs.purge_queue(...).
CallPurge(t) ==
    /\ Sched(t) /\ th[t].pc = "idle" /\ ref[t] # 0
    /\ th' = [th EXCEPT ![t] = Issue(BeginCall(t, "purge", "purging"), "purging")]
    /\ UNCHANGED <<instances, opened, ref, returned, mode, closed, scope, queue, hist>>

\* purge, lines 187-189: both branches print and fall off the end.
PurgeResult(o) == Returns("None")

PurgeOutcome(t) ==
    /\ Sched(t) /\ th[t].pc = "purging"
    /\ \E o \in {"ok"} \cup TransportErrors :
          /\ th' = [Finish(t, PurgeResult(o)) EXCEPT ![t].outs = Append(@, o)]
          /\ IF mode = "queue"
             THEN /\ queue' = IF o = "ok" THEN Purged(queue, th[t].url) ELSE queue
                  /\ hist' = [Touched(hist, th[t].url) EXCEPT !.purged = @ \cup {th[t].url}]
             ELSE UNCHANGED <<queue, hist>>
    /\ UNCHANGED <<instances, opened, ref, returned, mode, closed, scope>>

\* A retry counter kept from one call to the next.
StartReceiveCarried(f, n) == [f EXCEPT !.n = n, !.attempt = 1 + hist.failures]

\* Line 135: retry_attempt = 1, a local of the call.
StartReceive(f, n) == [f EXCEPT !.n = n, !.attempt = 1]

\* read_events_with_retry(max_retry_attempts=n, max_batch=k).
CallReceive(t) ==
    /\ Sched(t) /\ th[t].pc = "idle" /\ ref[t] # 0
    /\ \E n \in AttemptArgs(mode) : \E k \in BatchArgs(mode) :
          th' = [th EXCEPT ![t] =
                   StartReceive([BeginCall(t, "receive", "loop") EXCEPT !.batch = k], n)]
    /\ UNCHANGED <<instances, opened, ref, returned, mode, closed, scope, queue, hist>>

\* Line 137: the loop condition.
LoopCondition(f) == f.attempt <= f.n

\* Lines 137-146: the loop test, then self.sqs.receive_message(...) is called;
\* when the test fails the method falls off its end and returns None.
ReceivePoll(t) ==
    /\ Sched(t) /\ th[t].pc = "loop"
    /\ th' = IF LoopCondition(th[t])
             THEN [th EXCEPT ![t] = Issue(th[t], "polling")]
             ELSE Finish(t, Returns("None"))
    /\ UNCHANGED <<instances, opened, ref, returned, mode, closed, scope, queue, hist>>

\* `except Exception`.
CaughtAnyError(o) == o # "ok"

\* Line 152: the exceptions the handler catches.
Caught(o) == o = "WaiterError"

\* An empty list taken for a failed poll.
AfterPollEmptyIsFailure(f, o, ms) ==
    IF o = "ok" /\ ms # <<>> THEN [f EXCEPT !.pc = "done", !.res = ReturnsList(ms)]
    ELSE IF o = "ok" \/ o = "WaiterError" THEN [f EXCEPT !.pc = "except"]
    ELSE [f EXCEPT !.pc = "done", !.res = Raises(o)]

\* Lines 148-152: after the transport call ended with outcome o and messages
\* ms: the list is returned, WaiterError enters the handler, any other
\* exception leaves the method.
AfterPoll(f, o, ms) ==
    IF o = "ok" THEN [f EXCEPT !.pc = "done", !.res = ReturnsList(ms)]
    ELSE IF Caught(o) THEN [f EXCEPT !.pc = "except"]
    ELSE [f EXCEPT !.pc = "done", !.res = Raises(o)]

\* The lists response.get('Messages', []) may be after a receive_message
\* that did not raise: the oldest max_batch messages of the queue in "queue",
\* any list otherwise.
Polled(f) ==
    IF mode = "queue" THEN {Take(QueueOf(queue, f.url), f.batch)} ELSE Batches

ReceiveOutcome(t) ==
    /\ Sched(t) /\ th[t].pc = "polling"
    /\ \E o \in {"ok"} \cup TransportErrors :
       \E ms \in IF o = "ok" THEN Polled(th[t]) ELSE {<<>>} :
          /\ th' = [th EXCEPT ![t] =
                   AfterPoll([th[t] EXCEPT !.outs = Append(@, o), !.polled = ms], o, ms)]
          /\ hist' = IF mode = "seq" /\ o = "WaiterError"
                     THEN [hist EXCEPT !.failures = @ + 1] ELSE hist
    /\ UNCHANGED <<instances, opened, ref, returned, mode, closed, scope, queue>>

\* Line 158: the exception raised when the attempts are used up.
ExhaustedError == "HTTPClientError"

\* The handler with the test of the last attempt before _init_client().
ExceptHandlerRaiseFirst(insts, k, f) ==
    IF f.attempt = f.n
    THEN [insts |-> insts, opened |-> k,
          frame |-> [f EXCEPT !.pc = "done", !.res = Raises("HTTPClientError")]]
    ELSE [insts |-> init_client(insts, f.self, k + 1), opened |-> k + 1,
          frame |-> [f EXCEPT !.pc = "loop", !.attempt = @ + 1, !.inits = @ + 1]]

\* Lines 153-160, the handler, run when `k` boto3 clients exist:
\* _init_client() creates client k + 1 and assigns it to self.sqs; then the
\* last attempt raises, any other attempt is counted and the loop goes on.
\* The result: the objects, the number of boto3 clients and the frame.
ExceptHandler(insts, k, f) ==
    LET g == [f EXCEPT !.inits = @ + 1] IN
    [insts |-> init_client(insts, f.self, k + 1),
     opened |-> k + 1,
     frame |-> IF f.attempt = f.n
               THEN [g EXCEPT !.pc = "done", !.res = Raises(ExhaustedError)]
               ELSE [g EXCEPT !.pc = "loop", !.attempt = @ + 1]]

ReceiveReconnect(t) ==
    /\ Sched(t) /\ th[t].pc = "except"
    /\ opened < MaxHandles
    /\ LET r == ExceptHandler(instances, opened, th[t]) IN
          /\ instances' = r.insts
          /\ opened' = r.opened
          /\ th' = [th EXCEPT ![t] = r.frame]
          /\ scope' = IF r.opened = opened THEN scope
                      ELSE OpenedIn(scope, th[t].self, r.opened)
    /\ UNCHANGED <<ref, returned, mode, closed, queue, hist>>

----------------------------------------------------------------------------
(* client.py: the client as a context manager *)

\* The handles close() was called on.
ClosedHandles == {c.h : c \in closed}

\* __enter__, lines 80-82: `with client:` calls self._init_client(), which
\* creates a boto3 client and assigns it to self.sqs.
Enter(t) ==
    /\ Sched(t) /\ th[t].pc = "idle" /\ ref[t] # 0
    /\ scope[t] = NoScope
    /\ opened < MaxHandles
    /\ opened' = opened + 1
    /\ instances' = init_client(instances, ref[t], opened + 1)
    /\ scope' = [OpenedIn(scope, ref[t], opened + 1) EXCEPT
                    ![t] = [inst |-> ref[t], opens |-> {opened + 1}]]
    /\ UNCHANGED <<ref, th, returned, mode, closed, queue, hist>>

\* __exit__, lines 84-86: the block is left; self.sqs.close() is called on
\* the boto3 client self.sqs holds now.
Exit(t) ==
    /\ Sched(t) /\ th[t].pc = "idle"
    /\ scope[t] # NoScope
    /\ LET h == instances[scope[t].inst].sqs IN
          closed' = IF h # 0 THEN closed \cup {[h |-> h, by |-> t]} ELSE closed
    /\ scope' = [scope EXCEPT ![t] = NoScope]
    /\ UNCHANGED <<instances, opened, ref, th, returned, mode, queue, hist>>

----------------------------------------------------------------------------
(* Specifications *)

InitCommon ==
    /\ instances = <<>>
    /\ opened = 0
    /\ ref = [t \in Callers |-> 0]
    /\ th = [t \in Callers |-> Frame0]
    /\ returned = {}
    /\ closed = {}
    /\ scope = [t \in Callers |-> NoScope]
    /\ queue = <<>>
    /\ hist = Hist0

Init == InitCommon /\ mode = "seq"
InitBuild == InitCommon /\ mode = "build"
InitConc == InitCommon /\ mode = "conc"

Next ==
    \E t \in Callers :
        \/ CallBuild(t) \/ CallConstruct(t) \/ Lookup(t) \/ Register(t)
        \/ InitFields(t) \/ Connect(t) \/ Return(t)
        \/ CallSend(t) \/ SendOutcome(t)
        \/ CallDelete(t) \/ DeleteOutcome(t)
        \/ CallPurge(t) \/ PurgeOutcome(t)
        \/ CallReceive(t) \/ ReceivePoll(t) \/ ReceiveOutcome(t) \/ ReceiveReconnect(t)

\* A single-threaded program.
Spec == Init /\ [][Next]_vars

\* A single-threaded program that builds its clients with SQSClientBuilder.
SpecBuild == InitBuild /\ [][Next]_vars

\* Threads sharing SQSClient._instances and the clients.
SpecConc == InitConc /\ [][Next]_vars

InitScope == InitCommon /\ mode = "scope"

NextScope ==
    \/ Next
    \/ \E t \in Callers : Enter(t) \/ Exit(t)

InitQueue == InitCommon /\ mode = "queue"

NextQueue ==
    \/ Next
    \/ \E t \in Callers : CallSendWithAttributes(t)

\* A single-threaded program and the queues it works on.
SpecQueue == InitQueue /\ [][NextQueue]_vars

\* A single-threaded program whose parts hold clients and use them in
\* `with` blocks.
SpecScope == InitScope /\ [][NextScope]_vars

----------------------------------------------------------------------------
(* Properties *)

\* self.sqs of the client a frame works on.
HandleOf(f) == instances[f.self].sqs

Last(q) == q[Len(q)]

AllWaiter(q) == \A i \in 1..Len(q) : q[i] = "WaiterError"

\* The fields of a configuration that are None or empty.
EmptyFields(cfg) == {x \in FieldSet : cfg[x] = NoneV \/ cfg[x] = ""}

Range(q) == {q[i] : i \in 1..Len(q)}

\* C1: in a single-threaded program, constructions with equal configurations
\* returned the same instance, constructions with different configurations
\* returned different instances, and no two objects of the registry have the
\* same configuration.
C1_OneInstancePerConfig ==
    /\ \A p, q \in returned : (p.cfg = q.cfg) <=> (p.inst = q.inst)
    /\ \A i, j \in 1..Len(instances) :
          i # j => ConfigOf(instances[i]) # ConfigOf(instances[j])

\* C1 witness: a construction found the registered object of its
\* configuration and returned it, in a registry that holds another
\* configuration too.
C1_Witness ==
    \E t \in Callers :
        /\ th[t].pc = "done" /\ th[t].op = "construct" /\ th[t].found
        /\ th[t].res.kind = "return"
        /\ [cfg |-> th[t].cfg, inst |-> th[t].self] \in returned
        /\ Cardinality(returned) = 2 /\ Len(instances) = 2

\* C2: with threads constructing concurrently, the registry holds at most one
\* initialised object per configuration and the constructions of one
\* configuration all returned the same instance.
C2_OnePerConfigUnderThreads ==
    /\ \A i, j \in 1..Len(instances) :
          (i # j /\ instances[i].region_name # Unset)
              => ConfigOf(instances[i]) # ConfigOf(instances[j])
    /\ \A p, q \in returned : p.cfg = q.cfg => p.inst = q.inst

\* C3: in a receive call, a successful poll that follows k polls failed with
\* WaiterError is poll k+1 <= max_retry_attempts and the last poll of the
\* call; the call is over and returned the list of that poll, after k calls
\* of _init_client; with k = 0 self.sqs is the handle the call began with.
C3_SuccessAfterTransientFailures ==
    \A t \in Callers :
        LET f == th[t] IN
        f.op = "receive" =>
            \A i \in 1..Len(f.outs) :
                (f.outs[i] = "ok" /\ AllWaiter(SubSeq(f.outs, 1, i - 1))) =>
                    /\ i = Len(f.outs) /\ i <= f.n
                    /\ f.pc = "done"
                    /\ f.res = ReturnsList(f.polled)
                    /\ f.inits = i - 1
                    /\ i = 1 => HandleOf(f) = f.h0 /\ opened = f.mark

\* C3 witness: max_retry_attempts = 3, two polls failed, the third returned
\* no messages, and the call returned the empty list.
C3_Witness ==
    \E t \in Callers :
        /\ th[t].op = "receive" /\ th[t].pc = "done" /\ th[t].n = 3
        /\ th[t].outs = <<"WaiterError", "WaiterError", "ok">>
        /\ th[t].res = ReturnsList(<<>>)

\* C4: a receive call that is over and all of whose polls failed with
\* WaiterError issued max_retry_attempts polls, called _init_client that many
\* times, raised the exhaustion error, and self.sqs is a handle created after
\* the last poll was issued.
C4_ExhaustionAfterReconnect ==
    \A t \in Callers :
        LET f == th[t] IN
        (f.op = "receive" /\ f.pc = "done" /\ f.outs # <<>> /\ AllWaiter(f.outs)) =>
            /\ Len(f.outs) = f.n
            /\ f.inits = f.n
            /\ f.res = Raises(ExhaustedError)
            /\ HandleOf(f) > f.mark
            /\ HandleOf(f) # f.used

\* C4 witness: max_retry_attempts = 1, the only poll failed, the call raised.
C4_Witness ==
    \E t \in Callers :
        /\ th[t].op = "receive" /\ th[t].pc = "done" /\ th[t].n = 1
        /\ th[t].outs = <<"WaiterError">>
        /\ th[t].res.kind = "raise"

\* C5: in a receive call, a poll that failed with an exception other than
\* WaiterError is the last poll of the call; the call is over and raised that
\* exception; _init_client was called only for the polls before it; self.sqs
\* is the handle that poll was issued on and no boto3 client was created
\* since.
C5_HardErrorPropagates ==
    \A t \in Callers :
        LET f == th[t] IN
        f.op = "receive" =>
            \A i \in 1..Len(f.outs) :
                f.outs[i] \in HardErrors =>
                    /\ i = Len(f.outs)
                    /\ f.pc = "done"
                    /\ f.res = Raises(f.outs[i])
                    /\ f.inits = i - 1
                    /\ HandleOf(f) = f.used
                    /\ opened = f.mark

\* C5 witness: the second poll of a call with max_retry_attempts = 3 failed
\* with ClientError and the call raised it.
C5_Witness ==
    \E t \in Callers :
        /\ th[t].op = "receive" /\ th[t].pc = "done" /\ th[t].n = 3
        /\ th[t].outs = <<"WaiterError", "ClientError">>
        /\ th[t].res = Raises("ClientError")

\* C6: a receive call that ended because a poll raised an exception other
\* than WaiterError did not raise an error of the kind raised on exhaustion.
C6_ExhaustionDistinguishable ==
    \A t \in Callers :
        LET f == th[t] IN
        (f.op = "receive" /\ f.pc = "done" /\ f.outs # <<>> /\ Last(f.outs) \in HardErrors)
            => ~(f.res.kind = "raise" /\ f.res.val = ExhaustedError)

\* C7: a purge call whose transport call failed did not return normally.
C7_PurgeSurfacesFailure ==
    \A t \in Callers :
        LET f == th[t] IN
        (f.op = "purge" /\ f.pc = "done" /\ Last(f.outs) \in TransportErrors)
            => f.res.kind = "raise"

\* C8: a send or delete call that is over issued one transport call, on the
\* handle the call began with; self.sqs is still that handle, _init_client
\* was not called and no boto3 client was created; a failure of the
\* transport call was raised to the caller as it was, a success returned.
C8_SendDeleteFailFast ==
    \A t \in Callers :
        LET f == th[t] IN
        (f.op \in {"send", "delete"} /\ f.pc = "done") =>
            /\ Len(f.outs) = 1
            /\ f.inits = 0
            /\ f.used = f.h0 /\ HandleOf(f) = f.h0 /\ opened = f.mark
            /\ f.outs[1] \in TransportErrors => f.res = Raises(f.outs[1])
            /\ f.outs[1] = "ok" => f.res.kind = "return"

\* C8 witness: a send whose transport call failed with WaiterError raised
\* WaiterError.
C8_Witness ==
    \E t \in Callers :
        /\ th[t].op = "send" /\ th[t].pc = "done"
        /\ th[t].outs = <<"WaiterError">>
        /\ th[t].res = Raises("WaiterError")

C10_ReuseKeepsConnection ==
    \A t \in Callers :
        LET f == th[t] IN
        (f.op \in {"build", "construct"} /\ f.pc = "done" /\ f.found
         /\ f.res.kind = "return") =>
            /\ f.inits = 0
            /\ HandleOf(f) = f.h0

\* The transport call of frame f is in progress.
InFlight(f) == f.pc \in {"sending", "deleting", "purging", "polling"}

\* C11: every client a construction returned still has the four fields of
\* that construction, and every transport call in progress on it was issued
\* with the queue_url of that construction as its QueueUrl.
C11_EndpointAndConfigFixed ==
    \A r \in returned :
        /\ ConfigOf(instances[r.inst]) = r.cfg
        /\ \A t \in Callers :
              (InFlight(th[t]) /\ th[t].self = r.inst) => th[t].url = r.cfg.queue_url

\* C11 witness: a client constructed for queue q2, returned by two
\* constructions and reconnected inside a `with` block by a failed receive,
\* has a send in progress after the block was left.
C11_Witness ==
    \E t \in Callers : \E u \in Callers \ {t} :
        /\ th[t].op = "send" /\ th[t].pc = "sending" /\ th[t].url = Alt.queue_url
        /\ ref[u] = ref[t]
        /\ \E c \in closed : c.h = th[t].used /\ c.h >= 4

\* C12: no step of a receive call's handler replaces self.sqs of a client
\* while a send or delete call of another caller on that client has its
\* transport call in progress.
C12_SwapAtomicForSendDelete ==
    [][\A t \in Callers : \A u \in Callers \ {t} :
          (/\ th[t].pc \in {"sending", "deleting"}
           /\ th[u].pc = "except" /\ th[u].self = th[t].self
           /\ th'[u] # th[u])
          => instances'[th[t].self].sqs = instances[th[t].self].sqs]_vars

\* C13: a send call with a body and message attributes returned normally;
\* and when the last send call was made on a queue holding no message, the
\* list a receive call with max_batch >= 1 returns next from that queue is
\* one message with the body and the attributes of that send.
C13_SendThenReceiveRoundTrip ==
    \A t \in Callers :
        LET f == th[t] IN
        /\ (f.op = "send_with_attributes" /\ f.pc = "done") => f.res.kind = "return"
        /\ (/\ f.op = "receive" /\ f.pc = "done" /\ f.batch >= 1
            /\ f.res.kind = "return" /\ f.res.val = "messages"
            /\ hist.lastSend.url = f.url /\ hist.lastSend.onEmpty)
           => f.res.msgs = <<Message(f.url, hist.lastSend.body, hist.lastSend.attrs)>>

\* C14: a receive call on a queue for which a purge() call returned, with no
\* message sent to it since, returns the empty list when it returns a list.
C14_EmptyAfterPurge ==
    \A t \in Callers :
        LET f == th[t] IN
        (/\ f.op = "receive" /\ f.pc = "done"
         /\ f.res.kind = "return" /\ f.res.val = "messages"
         /\ f.url \in hist.purged)
        => f.res.msgs = <<>>

\* C15: the step that enters a `with` block creates a boto3 client and
\* makes it self.sqs; after the step that leaves the block, close() has been
\* called on self.sqs and on every boto3 client created on the client since
\* the block was entered.
C15_ScopeReleasesHandles ==
    [][\A t \in Callers :
          /\ (scope[t] = NoScope /\ scope'[t] # NoScope) =>
                /\ opened' = opened + 1
                /\ instances'[scope'[t].inst].sqs = opened'
          /\ (scope[t] # NoScope /\ scope'[t] = NoScope) =>
                /\ instances'[scope[t].inst].sqs \in ClosedHandles'
                /\ scope[t].opens \subseteq ClosedHandles']_vars

\* The polls of a receive call that ended with WaiterError.
Fails(f) == Cardinality({i \in 1..Len(f.outs) : f.outs[i] = "WaiterError"})

\* C16: the attempt counter of a receive call counts the failed polls of
\* that call only, whatever earlier calls did: each poll is issued with the
\* counter one above the polls the call issued before, and the call raises
\* for exhaustion only after max_retry_attempts failed polls of its own.
C16_RetryStatePerCall ==
    \A t \in Callers :
        LET f == th[t] IN
        f.op = "receive" =>
            /\ f.attempt \in {Fails(f), Fails(f) + 1}
            /\ f.pc \in {"loop", "polling"} => f.attempt = Len(f.outs) + 1
            /\ f.pc = "polling" => f.attempt <= f.n
            /\ (f.pc = "done" /\ f.res.kind = "raise" /\ AllWaiter(f.outs))
                  => Len(f.outs) = f.n

\* C16 witness: after two polls of earlier calls had failed, a call with
\* max_retry_attempts = 2 failed once and returned the list of its second poll.
C16_Witness ==
    \E t \in Callers :
        /\ th[t].op = "receive" /\ th[t].pc = "done" /\ th[t].n = 2
        /\ th[t].outs = <<"WaiterError", "ok">>
        /\ th[t].res.kind = "return" /\ th[t].res.val = "messages"
        /\ hist.failures = 3

\* C17: a receive call that is over issued at most max(max_retry_attempts, 0)
\* polls and either raised or returned the list of a successful poll.
C17_ReceiveReturnsListOrRaises ==
    \A t \in Callers :
        LET f == th[t] IN
        (f.op = "receive" /\ f.pc = "done") =>
            /\ Len(f.outs) <= (IF f.n > 0 THEN f.n ELSE 0)
            /\ \/ f.res.kind = "raise"
               \/ /\ f.res = ReturnsList(f.polled)
                  /\ f.outs # <<>> /\ Last(f.outs) = "ok"

\* C18: when a construction has raised, every object of the registry has its
\* four fields assigned and holds a boto3 client.
C18_FailedConstructionLeavesRegistry ==
    \A t \in Callers :
        LET f == th[t] IN
        (f.op \in {"build", "construct"} /\ f.pc = "done" /\ f.res.kind = "raise") =>
            \A i \in 1..Len(instances) :
                /\ \A x \in FieldSet : instances[i][x] # Unset
                /\ instances[i].sqs # 0

\* C19: no construction ended with the AttributeError of a lookup that read a
\* field of a registered object before __init__ assigned it.
C19_LookupSeesBuiltInstances ==
    \A t \in Callers :
        ~(th[t].op \in {"build", "construct"} /\ th[t].res = Raises("AttributeError"))

\* C20: no transport call is in progress on a boto3 client that another
\* holder of the client closed by leaving its `with` block.
C20_NoCallOnClosedHandle ==
    \A t \in Callers :
        InFlight(th[t]) => ~(\E c \in closed : c.h = th[t].used /\ c.by # t)

====
